---- MODULE Spec2Model ----
(***************************************************************************)
(* A model of the `propagate` crate: the propagation-tracing Result type   *)
(* (src/src/result.rs), the TracedError carrier and the CodeLocationStack  *)
(* trace store (src/src/error.rs).                                         *)
(*                                                                         *)
(* Seven specifications are given.                                         *)
(*   Spec     runs a chain of nested user functions (the shapes used by    *)
(*            the crate's tests, docs and examples) statement by           *)
(*            statement: the innermost creates or fails, the others        *)
(*            forward with `?` or return the inner result directly.        *)
(*   SpecOps  applies arbitrary sequences of the crate's operations to one *)
(*            value held by a consumer.                                    *)
(*   SpecUse  builds a result as SpecOps does and then takes it apart with *)
(*            the adapters and the unwrap family; a panic ends the run.    *)
(*   SpecThreads  runs a producer thread that builds a result and sends it *)
(*            through a channel and a consumer thread that receives and    *)
(*            forwards it, while holding a failure of its own.             *)
(*   SpecStores  applies the same constructions and `?` forwards to a      *)
(*            result with the default store and to one with the            *)
(*            CustomStack of examples/custom_stack_type.rs.                *)
(*   SpecLoc  constructs code locations and moves them with down_by.       *)
(*   SpecEq   builds results as SpecOps does and compares them with ==.    *)
(* `#[track_caller]` is modelled by passing the caller's panic::Location   *)
(* explicitly through every tracked function. The user functions are       *)
(* ordinary functions, as in the crate's tests, docs and examples.         *)
(***************************************************************************)
EXTENDS Integers, Sequences, FiniteSets, TLC

VARIABLES
    prog,   \* the chain of user functions: prog[1] is called by the top level, prog[i] calls prog[i+1]
    fp,     \* index of the frame that is running (0: back at the top level)
    ip,     \* index of the statement of frame fp that runs next
    pc,     \* "exec": running a statement, "returned": the callee of frame fp returned, "done", "ops": SpecOps
    ret,    \* the value in flight: the last returned value (Spec), the value the consumer holds (SpecOps)
    trail,  \* history: the statements executed so far, as [fp, ip, stmt, saw] records
    prev,   \* history (SpecOps): the value held before the last operation
    last,   \* history (SpecOps): the last operation, as [op, caller, ety] record
    nops,   \* SpecOps: number of operations applied so far
    held,   \* SpecThreads: the value each owner holds ("prod": the producer thread, "got" and "own": the consumer thread)
    chan,   \* SpecThreads: the messages in flight in the channel
    tpc,    \* SpecThreads: the position of each thread
    log     \* history (SpecThreads): for each failure, the recording operations applied to it, in order

vars == <<prog, fp, ip, pc, ret, trail, prev, last, nops, held, chan, tpc, log>>

\* The variables of the two threads; one thread runs in Spec, SpecOps and SpecUse.
threads == <<held, chan, tpc, log>>

----------------------------------------------------------------------------
(* Bounds *)

MaxDepth == 3
MaxOps == 4

----------------------------------------------------------------------------
(* Error payload types and the From conversions between them *)

ErrTypes == {"str", "String", "io", "MyError"}

FromImpls == {<<"str", "String">>, <<"io", "MyError">>, <<"String", "MyError">>}

HasFrom(E, F) == E = F \/ <<E, F>> \in FromImpls

Payload(ty, variant, data) == [ty |-> ty, variant |-> variant, data |-> data]

Payloads ==
    { Payload("str", "-", "oops"),
      Payload("String", "-", "oops"),
      Payload("io", "-", "NotFound"),
      Payload("MyError", "Other", "oops") }

From(p, F) ==
    IF p.ty = F THEN p
    ELSE IF F = "String" THEN Payload("String", "-", p.data)
    ELSE IF p.ty = "io" THEN Payload("MyError", "Io", p.data)
    ELSE Payload("MyError", "Other", p.data)

----------------------------------------------------------------------------
(* Success values *)

Unit == [kind |-> "unit", n |-> 0]
U32(n) == [kind |-> "u32", n |-> n]
SomeV(n) == [kind |-> "Some", n |-> n]
NoneV == [kind |-> "None", n |-> 0]

----------------------------------------------------------------------------
(* Code locations *)

PanicLocation(file, line, column) == [file |-> file, line |-> line, column |-> column]

CodeLocation(file, line) == [file |-> file, line |-> line]

CodeLocation_from(loc) == CodeLocation(loc.file, loc.line)

\* The call sites the user functions of the model are written at.
Sites ==
    { PanicLocation("src/result.rs", 921, 21),
      PanicLocation("src/result.rs", 948, 16),
      PanicLocation("examples/usage.rs", 63, 13) }

\* The site `lines` lines below `site` (the next statement of the same function).
SiteBelow(site, lines) == PanicLocation(site.file, site.line + lines, site.column)

\* A location inside the library: what Location::caller() would give in a
\* function that is not #[track_caller].
LibLocation == PanicLocation("src/error.rs", 213, 9)

----------------------------------------------------------------------------
(* CodeLocationStack and TracedError (src/src/error.rs) *)

CodeLocationStack_default == << >>

trace_dedup(stack, location) ==
    IF \E i \in 1..Len(stack) : stack[i] = CodeLocation_from(location) THEN stack
    ELSE Append(stack, CodeLocation_from(location))

trace_prepend(stack, location) == <<CodeLocation_from(location)>> \o stack

trace(stack, location) == Append(stack, CodeLocation_from(location))

TracedError(error, stack) == [error |-> error, stack |-> stack]

convert_inner_fresh(self, F) == TracedError(From(self.error, F), CodeLocationStack_default)

convert_inner(self, F) == TracedError(From(self.error, F), self.stack)

TracedError_new_global(error, caller) ==
    LET shared == IF held # << >> /\ held.prod.tag \in {"Err", "TracedError"}
                  THEN held.prod.err.stack ELSE CodeLocationStack_default
    IN  TracedError(error, trace(shared, caller))

TracedError_new_empty(error, caller) == TracedError(error, CodeLocationStack_default)

TracedError_new(error, caller) ==
    LET this == TracedError(error, CodeLocationStack_default)
    IN  [this EXCEPT !.stack = trace(this.stack, caller)]

push_caller_dedup(self, caller) ==
    IF self.stack # << >> /\ self.stack[Len(self.stack)] = CodeLocation_from(caller) THEN self
    ELSE [self EXCEPT !.stack = trace(self.stack, caller)]

push_caller_untracked(self, caller) == [self EXCEPT !.stack = trace(self.stack, LibLocation)]

push_caller(self, caller) == [self EXCEPT !.stack = trace(self.stack, caller)]

----------------------------------------------------------------------------
(* Result and the `?` operator (src/src/result.rs) *)

Ok(t) == [tag |-> "Ok", ok |-> t]

Err(e) == [tag |-> "Err", err |-> e]

StdOk(t) == [tag |-> "StdOk", ok |-> t]

StdErr(p) == [tag |-> "StdErr", error |-> p]

NoValue == [tag |-> "NoValue"]

from_output(output) == Ok(output)

Continue(ok) == [cf |-> "Continue", ok |-> ok]

Break(residual) == [cf |-> "Break", residual |-> residual]

branch_lossy(self) ==
    IF self.tag = "Ok" THEN Continue(Unit) ELSE Break(Err(self.err))

branch_no_break(self) ==
    IF self.tag = "Ok" THEN Continue(self.ok) ELSE Continue(Unit)

branch(self) ==
    IF self.tag = "Ok" THEN Continue(self.ok) ELSE Break(Err(self.err))

from_residual_snapshot(residual, F, caller) ==
    Err(TracedError_new(From(residual.err.error, F), caller))

from_residual_unconverted(residual, F, caller) == Err(push_caller(residual.err, caller))

from_residual(residual, F, caller) ==
    LET e == push_caller(residual.err, caller)
    IN  Err(convert_inner(e, F))

from_residual_std_untracked(residual, F, caller) ==
    Err(TracedError_new(From(residual.error, F), LibLocation))

from_residual_std(residual, F, caller) ==
    Err(TracedError_new(From(residual.error, F), caller))

new_err_untracked(error_value, E, caller) == Err(TracedError_new(From(error_value, E), LibLocation))

new_err(error_value, E, caller) == Err(TracedError_new(From(error_value, E), caller))

\* `x?` in a function whose error type is F: [exit |-> TRUE, value |-> r] when
\* the function returns r at once, [exit |-> FALSE, value |-> v] when it
\* goes on with v.
Exit(r) == [exit |-> TRUE, value |-> r]

GoOn(v) == [exit |-> FALSE, value |-> v]

\* Try::branch of std::result::Result, as the `?` on a std result uses it.
std_branch(x) ==
    IF x.tag = "StdOk" THEN Continue(x.ok) ELSE Break(StdErr(x.error))

\* The `?` operator in a function whose error type is F, written at `caller`:
\* match Try::branch(x) { Continue(v) => v, Break(r) => return FromResidual::from_residual(r) }
question_mark(x, F, caller) ==
    LET cf == IF x.tag \in {"Ok", "Err"} THEN branch(x) ELSE std_branch(x)
    IN  IF cf.cf = "Continue" THEN GoOn(cf.ok)
        ELSE IF cf.residual.tag = "Err" THEN Exit(from_residual(cf.residual, F, caller))
        ELSE Exit(from_residual_std(cf.residual, F, caller))

----------------------------------------------------------------------------
(* The user functions of the chain (Spec) *)

\* The statements of each function shape.
Body(name) ==
    CASE name = "gives_error"    -> <<"new_err">>
      [] name = "err_traced_new" -> <<"traced_new">>
      [] name = "maybe_io_error" -> <<"std_try", "ok_unit">>
      [] name = "maybe_int"      -> <<"std_try", "std_try", "ok_42">>
      [] name = "gives_ok"       -> <<"ok_2">>
      [] name = "foo"            -> <<"ok_call_try">>
      [] name = "bottom"         -> <<"call_try", "ok_unit">>
      [] name = "bar"            -> <<"call_ret">>

FrameOf(body, site, ety, payload, fail) ==
    [body |-> body, site |-> site, ety |-> ety, payload |-> payload, fail |-> fail]

PayloadOfType(ty) == CHOOSE p \in Payloads : p.ty = ty

\* The innermost functions: they create a failure or succeed.
LeafFrames ==
    { FrameOf("gives_error", s, F, p, TRUE) : s \in Sites, F \in ErrTypes, p \in Payloads }
    \cup { FrameOf("err_traced_new", s, p.ty, p, TRUE) : s \in Sites, p \in Payloads }
    \cup { FrameOf("maybe_io_error", s, F, p, TRUE) : s \in Sites, F \in ErrTypes, p \in Payloads }
    \cup { FrameOf("maybe_io_error", s, F, PayloadOfType(F), FALSE) : s \in Sites, F \in ErrTypes }
    \cup { FrameOf("maybe_int", s, "MyError", p, TRUE) : s \in Sites, p \in Payloads }
    \cup { FrameOf("maybe_int", s, "MyError", PayloadOfType("MyError"), FALSE) : s \in Sites }
    \cup { FrameOf("gives_ok", s, F, PayloadOfType(F), FALSE) : s \in Sites, F \in ErrTypes }

\* The functions that call the next function of the chain.
CallerFrames ==
    { FrameOf(b, s, F, PayloadOfType(F), FALSE) :
        b \in {"foo", "bottom", "bar"}, s \in Sites, F \in ErrTypes }

IsLeaf(f) == f.body \notin {"foo", "bottom", "bar"}

\* The program compiles only when the From conversions it needs exist.
LeafTyped(f) == HasFrom(f.payload.ty, f.ety)

\* Function f may call function g: `?` converts g's error type into f's, a
\* direct return needs the same type.
CanCall(f, g) == IF f.body = "bar" THEN g.ety = f.ety ELSE HasFrom(g.ety, f.ety)

\* The functions that may run at depth `depth` of the chain.
FramesAt(depth) ==
    { f \in LeafFrames : LeafTyped(f) } \cup (IF depth < MaxDepth THEN CallerFrames ELSE {})

NoOp == [op |-> "none", caller |-> LibLocation, ety |-> "str"]

\* No thread but the running one.
NoThreads == << >>

Init ==
    /\ prog \in { <<f>> : f \in FramesAt(1) }
    /\ fp = 1
    /\ ip = 1
    /\ pc = "exec"
    /\ ret = NoValue
    /\ trail = << >>
    /\ prev = NoValue
    /\ last = NoOp
    /\ nops = 0
    /\ held = NoThreads
    /\ chan = << >>
    /\ tpc = NoThreads
    /\ log = NoThreads

Frame == prog[fp]

Stmt == Body(Frame.body)[ip]

\* The location of statement ip of the running function.
StmtSite == SiteBelow(Frame.site, ip - 1)

Log(saw) == trail' = Append(trail, [fp |-> fp, ip |-> ip, stmt |-> Stmt, saw |-> saw])

\* The running function returns `value` to its caller.
Return(value) ==
    /\ ret' = value
    /\ fp' = fp - 1
    /\ ip' = IF fp = 1 THEN 0 ELSE 1
    /\ pc' = IF fp = 1 THEN "done" ELSE "returned"

\* The running function goes on with its next statement.
NextStmt ==
    /\ ret' = NoValue
    /\ fp' = fp
    /\ ip' = ip + 1
    /\ pc' = "exec"

\* Result::new_err(d)
NewErr ==
    /\ pc = "exec"
    /\ Stmt = "new_err"
    /\ Return(new_err(Frame.payload, Frame.ety, StmtSite))
    /\ Log("-")
    /\ UNCHANGED <<prog, prev, last, nops, threads>>

\* Err(TracedError::new(e))
TracedNew ==
    /\ pc = "exec"
    /\ Stmt = "traced_new"
    /\ Return(Err(TracedError_new(Frame.payload, StmtSite)))
    /\ Log("-")
    /\ UNCHANGED <<prog, prev, last, nops, threads>>

\* The std result the statement applies `?` to.
StdOperand ==
    IF ip = 1 THEN (IF Frame.fail THEN StdErr(Frame.payload) ELSE StdOk(Unit))
    ELSE StdErr(Payload("MyError", "Other", "-"))

\* std_result?;
StdTry ==
    /\ pc = "exec"
    /\ Stmt = "std_try"
    /\ LET q == question_mark(StdOperand, Frame.ety, StmtSite)
       IN  IF q.exit THEN Return(q.value) ELSE NextStmt
    /\ Log(StdOperand.tag)
    /\ UNCHANGED <<prog, prev, last, nops, threads>>

OkValue == CASE Stmt = "ok_unit" -> Unit [] Stmt = "ok_42" -> U32(42) [] Stmt = "ok_2" -> U32(2)

\* Ok(v) as the function's last expression
ReturnOk ==
    /\ pc = "exec"
    /\ Stmt \in {"ok_unit", "ok_42", "ok_2"}
    /\ Return(from_output(OkValue))
    /\ Log("-")
    /\ UNCHANGED <<prog, prev, last, nops, threads>>

\* The running function calls the next function of the chain.
Call ==
    /\ pc = "exec"
    /\ Stmt \in {"call_try", "ok_call_try", "call_ret"}
    /\ fp = Len(prog)
    /\ \E g \in FramesAt(fp + 1) :
         /\ CanCall(Frame, g)
         /\ prog' = Append(prog, g)
    /\ fp' = fp + 1
    /\ ip' = 1
    /\ pc' = "exec"
    /\ UNCHANGED <<ret, trail, prev, last, nops, threads>>

\* callee()?;
CallTry ==
    /\ pc = "returned"
    /\ Stmt = "call_try"
    /\ LET q == question_mark(ret, Frame.ety, StmtSite)
       IN  IF q.exit THEN Return(q.value) ELSE NextStmt
    /\ Log(ret.tag)
    /\ UNCHANGED <<prog, prev, last, nops, threads>>

\* Ok(callee()?)
OkCallTry ==
    /\ pc = "returned"
    /\ Stmt = "ok_call_try"
    /\ LET q == question_mark(ret, Frame.ety, StmtSite)
       IN  IF q.exit THEN Return(q.value) ELSE Return(Ok(q.value))
    /\ Log(ret.tag)
    /\ UNCHANGED <<prog, prev, last, nops, threads>>

CallRetTraced ==
    /\ pc = "returned"
    /\ Stmt = "call_ret"
    /\ Return(IF ret.tag = "Err" THEN Err(push_caller(ret.err, StmtSite)) ELSE ret)
    /\ Log(ret.tag)
    /\ UNCHANGED <<prog, prev, last, nops, threads>>

\* callee() as the function's last expression: the result is returned as it is
CallRet ==
    /\ pc = "returned"
    /\ Stmt = "call_ret"
    /\ Return(ret)
    /\ Log(ret.tag)
    /\ UNCHANGED <<prog, prev, last, nops, threads>>

Next ==
    \/ NewErr
    \/ TracedNew
    \/ StdTry
    \/ ReturnOk
    \/ Call
    \/ CallTry
    \/ OkCallTry
    \/ CallRet

Spec == Init /\ [][Next]_vars

----------------------------------------------------------------------------
(* Sequences of operations applied by a consumer to the value it holds     *)
(* (SpecOps)                                                               *)

Bare(e) == [tag |-> "TracedError", err |-> e]

OptSome(x) == [tag |-> "Some", some |-> x]

OptNone == [tag |-> "None"]

\* The functions handed to map_err.
MapFns == {"stringify", "wrap"}

Apply(op, p) ==
    IF op = "stringify" THEN Payload("String", "stringify", p.data)
    ELSE Payload("MyError", "Wrapped", p.data)

map_err_push(self, op) ==
    IF self.tag = "Ok" THEN Ok(self.ok)
    ELSE Err(push_caller(TracedError(Apply(op, self.err.error), self.err.stack), LibLocation))

map_err_retrace(self, op) ==
    IF self.tag = "Ok" THEN Ok(self.ok)
    ELSE Err(TracedError_new(Apply(op, self.err.error), LibLocation))

map_err(self, op) ==
    IF self.tag = "Ok" THEN Ok(self.ok)
    ELSE Err(TracedError(Apply(op, self.err.error), self.err.stack))

transpose_traced(self) ==
    IF self.tag = "Ok"
    THEN (IF self.ok.kind = "Some" THEN OptSome(Ok(U32(self.ok.n))) ELSE OptNone)
    ELSE OptSome(Err(push_caller(self.err, LibLocation)))

transpose_drops(self) ==
    IF self.tag = "Ok"
    THEN (IF self.ok.kind = "Some" THEN OptSome(Ok(U32(self.ok.n))) ELSE OptNone)
    ELSE OptSome(Err(TracedError(self.err.error, <<self.err.stack[1]>>)))

transpose(self) ==
    IF self.tag = "Ok"
    THEN (IF self.ok.kind = "Some" THEN OptSome(Ok(U32(self.ok.n))) ELSE OptNone)
    ELSE OptSome(Err(self.err))

err_stack_untraced(self) ==
    IF self.tag = "Ok" THEN OptNone ELSE OptSome(Bare(TracedError(self.err.error, << >>)))

err_stack(self) == IF self.tag = "Ok" THEN OptNone ELSE OptSome(Bare(self.err))

OkValues == {Unit, U32(2), SomeV(5), NoneV}

InitOps ==
    /\ prog = << >>
    /\ fp = 0
    /\ ip = 0
    /\ pc = "ops"
    /\ ret = NoValue
    /\ trail = << >>
    /\ prev = NoValue
    /\ last = NoOp
    /\ nops = 0
    /\ held = NoThreads
    /\ chan = << >>
    /\ tpc = NoThreads
    /\ log = NoThreads

\* The consumer applied operation `op` and now holds `value`.
Applied(op, caller, ety, value) ==
    /\ pc = "ops"
    /\ nops < MaxOps
    /\ ret' = value
    /\ prev' = ret
    /\ last' = [op |-> op, caller |-> caller, ety |-> ety]
    /\ nops' = nops + 1
    /\ UNCHANGED <<prog, fp, ip, pc, trail, threads>>

\* Result::new_err(d), for a result of error type E
OpNewErr ==
    \E d \in Payloads, E \in ErrTypes, caller \in Sites :
        /\ HasFrom(d.ty, E)
        /\ Applied("new_err", caller, E, new_err(d, E, caller))

\* TracedError::new(e)
OpTracedNew ==
    \E e \in Payloads, caller \in Sites :
        /\ pc = "ops"
        /\ Applied("traced_new", caller, e.ty, Bare(TracedError_new(e, caller)))

\* Ok(v)
OpOk ==
    \E v \in OkValues :
        /\ pc = "ops"
        /\ Applied("Ok", LibLocation, "str", Ok(v))

\* Ok(std_result?) in a function of error type F
OpStdTry ==
    \E x \in {StdErr(p) : p \in Payloads} \cup {StdOk(Unit)}, F \in ErrTypes, caller \in Sites :
        /\ x.tag = "StdErr" => HasFrom(x.error.ty, F)
        /\ LET q == question_mark(x, F, caller)
           IN  Applied("std_try", caller, F, IF q.exit THEN q.value ELSE Ok(q.value))

\* Ok(held?) in a function of error type F
OpTry ==
    \E F \in ErrTypes, caller \in Sites :
        /\ ret.tag \in {"Ok", "Err"}
        /\ ret.tag = "Err" => HasFrom(ret.err.error.ty, F)
        /\ LET q == question_mark(ret, F, caller)
           IN  Applied("try", caller, F, IF q.exit THEN q.value ELSE Ok(q.value))

\* Err(held_carrier): the carrier taken out of an Option is wrapped into a result again
OpWrapErr ==
    /\ ret.tag = "TracedError"
    /\ Applied("wrap_err", LibLocation, ret.err.error.ty, Err(ret.err))

\* held.push_caller(), on the carrier or on the carrier of a held Err
OpPushCaller ==
    \E caller \in Sites :
        /\ ret.tag \in {"Err", "TracedError"}
        /\ Applied("push_caller", caller, ret.err.error.ty,
                   [ret EXCEPT !.err = push_caller(ret.err, caller)])

\* held.convert_inner::<F>()
OpConvertInner ==
    \E F \in ErrTypes :
        /\ ret.tag \in {"Err", "TracedError"}
        /\ HasFrom(ret.err.error.ty, F)
        /\ Applied("convert_inner", LibLocation, F, [ret EXCEPT !.err = convert_inner(ret.err, F)])

\* held.map_err(op)
OpMapErr ==
    \E op \in MapFns :
        /\ ret.tag \in {"Ok", "Err"}
        /\ Applied("map_err", LibLocation, IF op = "stringify" THEN "String" ELSE "MyError", map_err(ret, op))

\* held.transpose()
OpTranspose ==
    /\ ret.tag \in {"Ok", "Err"}
    /\ ret.tag = "Ok" => ret.ok.kind \in {"Some", "None"}
    /\ Applied("transpose", LibLocation, "str", transpose(ret))

\* held.err_stack()
OpErrStack ==
    /\ ret.tag \in {"Ok", "Err"}
    /\ Applied("err_stack", LibLocation, "str", err_stack(ret))

\* The content of a held Some(x) is taken out.
OpTakeSome ==
    /\ ret.tag = "Some"
    /\ Applied("take_some", LibLocation, "str", ret.some)

NextOps ==
    \/ OpNewErr
    \/ OpTracedNew
    \/ OpOk
    \/ OpStdTry
    \/ OpTry
    \/ OpWrapErr
    \/ OpPushCaller
    \/ OpConvertInner
    \/ OpMapErr
    \/ OpTranspose
    \/ OpErrStack
    \/ OpTakeSome

SpecOps == InitOps /\ [][NextOps]_vars

----------------------------------------------------------------------------
(* The operations that take a result apart (SpecUse): a consumer builds a  *)
(* result with up to MaxUse operations of SpecOps and then consumes it.    *)

MaxUse == 3

\* A success value or an error payload held outside a Result.
Value(t) == [tag |-> "Value", v |-> t]

PayloadV(e) == [tag |-> "Payload", error |-> e]

\* The process aborted with this panic message.
Panic(msg) == [tag |-> "Panic", msg |-> msg]

\* {:?} of an error payload (derive(Debug)); a text is a sequence of pieces.
DebugPayload(p) ==
    IF p.ty \in {"str", "String"} THEN <<"\"", p.data, "\"">>
    ELSE IF p.ty = "io" THEN <<"Kind(", p.data, ")">>
    ELSE <<p.variant, "(\"", p.data, "\")">>

\* {:?} of a success value
DebugValue(t) ==
    CASE t.kind = "unit" -> <<"()">>
      [] t.kind = "u32"  -> <<ToString(t.n)>>
      [] t.kind = "Some" -> <<"Some(", ToString(t.n), ")">>
      [] t.kind = "None" -> <<"None">>

\* {:?} of CodeLocation (derive(Debug))
DebugLocation(l) == <<"CodeLocation { file: \"", l.file, "\", line: ", ToString(l.line), " }">>

RECURSIVE DebugLocations(_)
DebugLocations(stack) ==
    IF stack = << >> THEN << >>
    ELSE IF Len(stack) = 1 THEN DebugLocation(stack[1])
    ELSE DebugLocation(stack[1]) \o <<", ">> \o DebugLocations(Tail(stack))

\* {:?} of CodeLocationStack (derive(Debug))
DebugStack(stack) == <<"CodeLocationStack([">> \o DebugLocations(stack) \o <<"])">>

\* {:?} of TracedError (derive(Debug))
DebugTracedError(e) ==
    <<"TracedError { error: ">> \o DebugPayload(e.error)
        \o <<", stack: ">> \o DebugStack(e.stack) \o <<" }">>

unwrap_failed(msg, error) == Panic(<<msg, ": ">> \o error)

\* The default texts of unwrap and unwrap_err (written without their backquotes).
UnwrapMsg == "called Result::unwrap() on an Err value"

UnwrapErrMsg == "called Result::unwrap_err() on an Ok value"

expect_lenient(self, msg) ==
    IF self.tag = "Ok" THEN Value(self.ok) ELSE Value(Unit)

expect(self, msg) ==
    IF self.tag = "Ok" THEN Value(self.ok) ELSE unwrap_failed(msg, DebugTracedError(self.err))

unwrap_strict(self) ==
    IF self.tag = "Ok" /\ self.ok.kind # "unit" THEN Value(self.ok)
    ELSE unwrap_failed(UnwrapMsg, IF self.tag = "Ok" THEN DebugValue(self.ok) ELSE DebugTracedError(self.err))

unwrap(self) ==
    IF self.tag = "Ok" THEN Value(self.ok) ELSE unwrap_failed(UnwrapMsg, DebugTracedError(self.err))

expect_err(self, msg) ==
    IF self.tag = "Ok" THEN unwrap_failed(msg, DebugValue(self.ok)) ELSE PayloadV(self.err.error)

unwrap_err(self) ==
    IF self.tag = "Ok" THEN unwrap_failed(UnwrapErrMsg, DebugValue(self.ok))
    ELSE PayloadV(self.err.error)

to_std_typed(self) ==
    IF self.tag = "Ok" THEN StdOk(self.ok)
    ELSE StdErr(Payload("String", "-", self.err.error.data))

to_std(self) ==
    IF self.tag = "Ok" THEN StdOk(self.ok) ELSE StdErr(self.err.error)

as_std_ref(self) ==
    IF self.tag = "Ok" THEN StdOk(self.ok) ELSE StdErr(self.err.error)

ok(self) == IF self.tag = "Ok" THEN OptSome(Value(self.ok)) ELSE OptNone

err(self) == IF self.tag = "Ok" THEN OptNone ELSE OptSome(PayloadV(self.err.error))

unwrap_or_always_default(self, default) == Value(default)

unwrap_or(self, default) == IF self.tag = "Ok" THEN Value(self.ok) ELSE Value(default)

\* The function handed to unwrap_or_else: count(x) = x.len()
TextLen(text) ==
    CASE text = "oops" -> 4 [] text = "NotFound" -> 8 [] text = "-" -> 1

count(p) == U32(TextLen(p.data))

unwrap_or_else(self, op) == IF self.tag = "Ok" THEN Value(self.ok) ELSE Value(count(self.err.error))

\* Default::default() of the success type
Default(kind) ==
    CASE kind = "unit" -> Unit
      [] kind = "u32"  -> U32(0)
      [] kind \in {"Some", "None"} -> NoneV

unwrap_or_default(self, T) == IF self.tag = "Ok" THEN Value(self.ok) ELSE Value(Default(T))

\* The texts handed to expect and expect_err.
ExpectMsgs == {"Testing expect", "Testing expect_err"}

\* The consumer applied operation `op` (recorded as `rec`) to the result it
\* holds and got `value`; a panic aborts the process.
Consumed(rec, value) ==
    /\ pc = "ops"
    /\ ret.tag \in {"Ok", "Err"}
    /\ ret' = value
    /\ prev' = ret
    /\ last' = rec
    /\ nops' = nops + 1
    /\ pc' = IF value.tag = "Panic" THEN "panicked" ELSE "ops"
    /\ UNCHANGED <<prog, fp, ip, trail, threads>>

Use(op) == [op |-> op, caller |-> LibLocation, ety |-> "str"]

\* held.expect(msg)
OpExpect ==
    \E msg \in ExpectMsgs :
        Consumed([op |-> "expect", caller |-> LibLocation, ety |-> "str", msg |-> msg], expect(ret, msg))

\* held.unwrap()
OpUnwrap ==
    /\ pc = "ops"
    /\ Consumed([op |-> "unwrap", caller |-> LibLocation, ety |-> "str", msg |-> UnwrapMsg], unwrap(ret))

\* held.expect_err(msg)
OpExpectErr ==
    \E msg \in ExpectMsgs :
        Consumed([op |-> "expect_err", caller |-> LibLocation, ety |-> "str", msg |-> msg], expect_err(ret, msg))

\* held.unwrap_err()
OpUnwrapErr ==
    /\ pc = "ops"
    /\ Consumed([op |-> "unwrap_err", caller |-> LibLocation, ety |-> "str", msg |-> UnwrapErrMsg], unwrap_err(ret))

\* held.to_std()
OpToStd ==
    /\ pc = "ops"
    /\ Consumed(Use("to_std"), to_std(ret))

\* held.as_std_ref()
OpAsStdRef ==
    /\ pc = "ops"
    /\ Consumed(Use("as_std_ref"), as_std_ref(ret))

\* held.ok()
OpOkOf ==
    /\ pc = "ops"
    /\ Consumed(Use("ok"), ok(ret))

\* held.err()
OpErrOf ==
    /\ pc = "ops"
    /\ Consumed(Use("err"), err(ret))

\* held.unwrap_or(default)
OpUnwrapOr ==
    \E default \in OkValues :
        /\ ret.tag = "Ok" => default.kind = ret.ok.kind
        /\ Consumed([op |-> "unwrap_or", caller |-> LibLocation, ety |-> "str", default |-> default],
                    unwrap_or(ret, default))

\* held.unwrap_or_else(count)
OpUnwrapOrElse ==
    /\ pc = "ops"
    /\ ret.tag = "Ok" => ret.ok.kind = "u32"
    /\ Consumed(Use("unwrap_or_else"), unwrap_or_else(ret, "count"))

\* held.unwrap_or_default()
OpUnwrapOrDefault ==
    \E T \in {"unit", "u32", "Some"} :
        /\ ret.tag = "Ok" => T = ret.ok.kind
        /\ Consumed([op |-> "unwrap_or_default", caller |-> LibLocation, ety |-> "str", T |-> T],
                    unwrap_or_default(ret, T))

\* {} of CodeLocation: write!(formatter, "{}:{}", self.file, self.line)
DisplayLocation(l) == <<l.file, ":", ToString(l.line)>>

\* CodeLocationStack::to_strings
to_strings(stack) == [i \in 1..Len(stack) |-> DisplayLocation(stack[i])]

\* The lines Display for CodeLocationStack writes for the locations from
\* (zero-based) index on: write!(f, "\n   {}: {}", index, location)
RECURSIVE DisplayFrom(_, _)
DisplayFrom(stack, index) ==
    IF stack = << >> THEN << >>
    ELSE <<"\n   ", ToString(index), ": ">> \o DisplayLocation(Head(stack))
            \o DisplayFrom(Tail(stack), index + 1)

DisplayStack_one_based(stack) == DisplayFrom(stack, 1)

\* {} of CodeLocationStack
DisplayStack(stack) == DisplayFrom(stack, 0)

\* {} of an error payload, as the report of trial_and_error prints it
DisplayPayload(p) ==
    IF p.ty = "MyError" /\ p.variant = "Io" THEN <<"I/O error">> ELSE <<p.data>>

\* What the process printed and the exit code it reports.
Exited(code, out) == [tag |-> "Exit", code |-> code, out |-> out]

report_payload_only(self) ==
    IF self.tag = "Ok" THEN Exited(0, << >>)
    ELSE Exited(1, <<"Error: ">> \o DisplayPayload(self.err.error) \o <<"\n">>)

\* Termination::report
report(self) ==
    IF self.tag = "Ok" THEN Exited(0, << >>)
    ELSE Exited(1, <<"Error: ">> \o DisplayPayload(self.err.error) \o <<"\n">>
                    \o <<"\nReturn Trace: ">> \o DisplayStack(self.err.stack) \o <<"\n">>)

\* What the consumer got from formatting a stack: format!("{}", stack) and stack.to_strings()
Shown(stack) == [tag |-> "Shown", display |-> DisplayStack(stack), strings |-> to_strings(stack)]

\* main returns the held result: held.report()
OpReport ==
    /\ pc = "ops"
    /\ ret.tag = "Err" => ret.err.error.ty \in {"io", "MyError"}
    /\ Consumed(Use("report"), report(ret))

\* format!("{}", e.stack()) and e.stack().to_strings() of the held failure
OpShowStack ==
    /\ pc = "ops"
    /\ ret.tag = "Err"
    /\ Consumed([op |-> "show", caller |-> LibLocation, ety |-> "str", stack |-> ret.err.stack],
                Shown(ret.err.stack))

\* format!("{}", CodeLocationStack::default()) and its to_strings()
OpShowDefault ==
    /\ pc = "ops"
    /\ nops < MaxUse
    /\ ret' = Shown(CodeLocationStack_default)
    /\ prev' = ret
    /\ last' = [op |-> "show_default", caller |-> LibLocation, ety |-> "str", stack |-> CodeLocationStack_default]
    /\ nops' = nops + 1
    /\ UNCHANGED <<prog, fp, ip, pc, trail, threads>>

\* The trace stores a caller may want to hand over: QTrace::new(), or a
\* store that holds a location already.
GivenStores == {CodeLocationStack_default, <<CodeLocation("examples/qumulo.rs", 51)>>}

\* Building a failure from a payload when the caller has a trace store to
\* give, as QErr(MyError::TooSmall(size), QTrace::new()) means to: Err has
\* one field, a TracedError, and the fields of TracedError are pub(crate), so
\* outside the crate the carrier comes from TracedError::new(error) and the
\* store is not taken.
QErr(error, given, caller) == Err(TracedError_new(error, caller))

OpQErr ==
    \E error \in Payloads, given \in GivenStores, caller \in Sites :
        /\ pc = "ops"
        /\ nops < MaxUse
        /\ ret' = QErr(error, given, caller)
        /\ prev' = ret
        /\ last' = [op |-> "err_with", caller |-> caller, ety |-> error.ty, payload |-> error, given |-> given]
        /\ nops' = nops + 1
        /\ UNCHANGED <<prog, fp, ip, pc, trail, threads>>

NextUse ==
    \/ (nops < MaxUse /\ NextOps)
    \/ OpQErr
    \/ OpReport
    \/ OpShowStack
    \/ OpShowDefault
    \/ OpExpect
    \/ OpUnwrap
    \/ OpExpectErr
    \/ OpUnwrapErr
    \/ OpToStd
    \/ OpAsStdRef
    \/ OpOkOf
    \/ OpErrOf
    \/ OpUnwrapOr
    \/ OpUnwrapOrElse
    \/ OpUnwrapOrDefault

SpecUse == InitOps /\ [][NextUse]_vars

----------------------------------------------------------------------------
(* A producer thread builds a result and sends it through a channel to a   *)
(* consumer thread, which applies `?` to it; the consumer also has a       *)
(* failure of its own (SpecThreads).                                       *)

MaxPush == 2

Slots == {"prod", "got", "own"}

\* One recording operation applied to a failure: its call site and its inputs.
Rec(op, site, payload, ety) == [op |-> op, site |-> site, payload |-> payload, ety |-> ety]

InitThreads ==
    /\ prog = << >>
    /\ fp = 0
    /\ ip = 0
    /\ pc = "threads"
    /\ ret = NoValue
    /\ trail = << >>
    /\ prev = NoValue
    /\ last = NoOp
    /\ nops = 0
    /\ held = [n \in Slots |-> NoValue]
    /\ chan = << >>
    /\ tpc = [producer |-> "start", consumer |-> "start"]
    /\ log = [sent |-> << >>, own |-> << >>]

OneThread == <<prog, fp, ip, pc, ret, trail, prev, last, nops>>

\* producer: let mut e = TracedError::new(payload);
PNew ==
    \E e \in Payloads, caller \in Sites :
        /\ tpc.producer = "start"
        /\ held' = [held EXCEPT !.prod = Bare(TracedError_new(e, caller))]
        /\ log' = [log EXCEPT !.sent = <<Rec("new", caller, e, e.ty)>>]
        /\ tpc' = [tpc EXCEPT !.producer = "built"]
        /\ UNCHANGED <<chan, OneThread>>

\* producer: e.push_caller();
PPush ==
    \E caller \in Sites :
        /\ tpc.producer = "built"
        /\ Len(log.sent) <= MaxPush
        /\ held' = [held EXCEPT !.prod = Bare(push_caller(held.prod.err, caller))]
        /\ log' = [log EXCEPT !.sent = Append(@, Rec("push", caller, held.prod.err.error, held.prod.err.error.ty))]
        /\ UNCHANGED <<chan, tpc, OneThread>>

\* producer: let result = Err(e);
PWrap ==
    /\ tpc.producer = "built"
    /\ held' = [held EXCEPT !.prod = Err(held.prod.err)]
    /\ tpc' = [tpc EXCEPT !.producer = "ready"]
    /\ UNCHANGED <<chan, log, OneThread>>

\* producer: let open_result = open_file(path);   (File::open(path)? inside)
POpen ==
    \E x \in {StdErr(p) : p \in Payloads} \cup {StdOk(Unit)}, F \in ErrTypes, caller \in Sites :
        /\ tpc.producer = "start"
        /\ IF x.tag = "StdErr" THEN HasFrom(x.error.ty, F) ELSE F = "io"
        /\ LET q == question_mark(x, F, caller)
           IN  held' = [held EXCEPT !.prod = IF q.exit THEN q.value ELSE Ok(q.value)]
        /\ log' = [log EXCEPT !.sent = IF x.tag = "StdErr" THEN <<Rec("std_try", caller, x.error, F)>> ELSE << >>]
        /\ tpc' = [tpc EXCEPT !.producer = "ready"]
        /\ UNCHANGED <<chan, OneThread>>

\* producer: tx.send(open_result): the result moves into the channel
PSend ==
    /\ tpc.producer = "ready"
    /\ chan' = Append(chan, held.prod)
    /\ held' = [held EXCEPT !.prod = NoValue]
    /\ tpc' = [tpc EXCEPT !.producer = "sent"]
    /\ UNCHANGED <<log, OneThread>>

\* consumer: let open_result = rx.recv(): blocks until a message is there
CRecv ==
    /\ tpc.consumer = "start"
    /\ chan # << >>
    /\ held' = [held EXCEPT !.got = Head(chan)]
    /\ chan' = Tail(chan)
    /\ tpc' = [tpc EXCEPT !.consumer = "received"]
    /\ UNCHANGED <<log, OneThread>>

\* consumer: Ok(open_result?) in a function of error type F
CTry ==
    \E F \in ErrTypes, caller \in Sites :
        /\ tpc.consumer = "received"
        /\ IF held.got.tag = "Err" THEN HasFrom(held.got.err.error.ty, F) ELSE F = "io"
        /\ LET q == question_mark(held.got, F, caller)
           IN  held' = [held EXCEPT !.got = IF q.exit THEN q.value ELSE Ok(q.value)]
        /\ log' = [log EXCEPT !.sent =
                      IF held.got.tag = "Err" THEN Append(@, Rec("try", caller, held.got.err.error, F)) ELSE @]
        /\ tpc' = [tpc EXCEPT !.consumer = "done"]
        /\ UNCHANGED <<chan, OneThread>>

\* The payloads of the consumer's own failure.
OwnPayloads == {p \in Payloads : p.ty = "io"}

\* consumer: let own = Result::new_err(d);
COwnNew ==
    \E d \in OwnPayloads, E \in {"io", "MyError"}, caller \in Sites :
        /\ held.own = NoValue
        /\ held' = [held EXCEPT !.own = new_err(d, E, caller)]
        /\ log' = [log EXCEPT !.own = <<Rec("new_err", caller, d, E)>>]
        /\ UNCHANGED <<chan, tpc, OneThread>>

\* consumer: Ok(own?) in a function of error type MyError
COwnTry ==
    \E caller \in Sites :
        /\ held.own.tag = "Err"
        /\ Len(log.own) = 1
        /\ held' = [held EXCEPT !.own = question_mark(held.own, "MyError", caller).value]
        /\ log' = [log EXCEPT !.own = Append(@, Rec("try", caller, held.own.err.error, "MyError"))]
        /\ UNCHANGED <<chan, tpc, OneThread>>

\* consumer: own.unwrap_err()
COwnUnwrapErr ==
    /\ held.own.tag = "Err"
    /\ held' = [held EXCEPT !.own = unwrap_err(held.own)]
    /\ UNCHANGED <<chan, tpc, log, OneThread>>

NextThreads ==
    \/ PNew
    \/ PPush
    \/ PWrap
    \/ POpen
    \/ PSend
    \/ CRecv
    \/ CTry
    \/ COwnNew
    \/ COwnTry
    \/ COwnUnwrapErr

SpecThreads == InitThreads /\ [][NextThreads]_vars

----------------------------------------------------------------------------
(* Result<T, E, S> for any trace store S: Traced. The same operations are  *)
(* applied to a result with the default store and to a result with the     *)
(* CustomStack of examples/custom_stack_type.rs (SpecStores).              *)

StoreTypes == {"CodeLocationStack", "CustomStack"}

\* S::default(): CodeLocationStack(vec![]) and CustomStack(Vec::default())
Default_S(S) == << >>

\* Traced for CustomStack: self.0.push(format!("{}:{}", location.file(), location.line()))
CustomStack_trace(stack, location) == Append(stack, <<location.file, ":", ToString(location.line)>>)

\* S::trace
trace_S(S, stack, location) ==
    IF S = "CodeLocationStack" THEN trace(stack, location) ELSE CustomStack_trace(stack, location)

TracedError_new_S(S, error, caller) ==
    LET this == TracedError(error, Default_S(S))
    IN  [this EXCEPT !.stack = trace_S(S, this.stack, caller)]

push_caller_S_default_only(S, self, caller) ==
    IF S = "CodeLocationStack" THEN [self EXCEPT !.stack = trace_S(S, self.stack, caller)] ELSE self

push_caller_S(S, self, caller) == [self EXCEPT !.stack = trace_S(S, self.stack, caller)]

from_residual_S(S, residual, F, caller) ==
    LET e == push_caller_S(S, residual.err, caller)
    IN  Err(convert_inner(e, F))

from_residual_std_S(S, residual, F, caller) ==
    Err(TracedError_new_S(S, From(residual.error, F), caller))

new_err_S(S, error_value, E, caller) == Err(TracedError_new_S(S, From(error_value, E), caller))

question_mark_S(S, x, F, caller) ==
    LET cf == IF x.tag \in {"Ok", "Err"} THEN branch(x) ELSE std_branch(x)
    IN  IF cf.cf = "Continue" THEN GoOn(cf.ok)
        ELSE IF cf.residual.tag = "Err" THEN Exit(from_residual_S(S, cf.residual, F, caller))
        ELSE Exit(from_residual_std_S(S, cf.residual, F, caller))

InitStores ==
    /\ prog = << >>
    /\ fp = 0
    /\ ip = 0
    /\ pc = "stores"
    /\ ret = NoValue
    /\ trail = << >>
    /\ prev = NoValue
    /\ last = NoOp
    /\ nops = 0
    /\ held = [S \in StoreTypes |-> NoValue]
    /\ chan = << >>
    /\ tpc = NoThreads
    /\ log = << >>

\* One more operation was applied to both results; `recorded` is the log of
\* the call sites of the constructions and forwards of the failure held.
StoreStep(recorded) ==
    /\ pc = "stores"
    /\ nops < MaxOps
    /\ nops' = nops + 1
    /\ log' = recorded
    /\ UNCHANGED <<prog, fp, ip, pc, ret, trail, prev, last, chan, tpc>>

\* Result::new_err(d)
SNewErr ==
    \E d \in Payloads, E \in ErrTypes, caller \in Sites :
        /\ HasFrom(d.ty, E)
        /\ held' = [S \in StoreTypes |-> new_err_S(S, d, E, caller)]
        /\ StoreStep(<<caller>>)

\* Ok(std_result?) in a function of error type F
SStdTry ==
    \E x \in {StdErr(p) : p \in Payloads} \cup {StdOk(Unit)}, F \in ErrTypes, caller \in Sites :
        /\ IF x.tag = "StdErr" THEN HasFrom(x.error.ty, F) ELSE F = "io"
        /\ held' = [S \in StoreTypes |->
                      LET q == question_mark_S(S, x, F, caller)
                      IN  IF q.exit THEN q.value ELSE Ok(q.value)]
        /\ StoreStep(IF x.tag = "StdErr" THEN <<caller>> ELSE << >>)

\* Ok(held?) in a function of error type F
STry ==
    \E F \in ErrTypes, caller \in Sites :
        /\ held["CustomStack"].tag \in {"Ok", "Err"}
        /\ IF held["CustomStack"].tag = "Err" THEN HasFrom(held["CustomStack"].err.error.ty, F) ELSE F = "io"
        /\ held' = [S \in StoreTypes |->
                      LET q == question_mark_S(S, held[S], F, caller)
                      IN  IF q.exit THEN q.value ELSE Ok(q.value)]
        /\ StoreStep(IF held["CustomStack"].tag = "Err" THEN Append(log, caller) ELSE log)

NextStores ==
    \/ SNewErr
    \/ SStdTry
    \/ STry

SpecStores == InitStores /\ [][NextStores]_vars

----------------------------------------------------------------------------
(* CodeLocation::down_by. The line is a u32, kept here as two 16-bit limbs  *)
(* so that sums beyond u32::MAX are computed exactly (SpecLoc).             *)

\* 2^16: a u32 is hi * Limb + lo
Limb == 65536

u32(hi, lo) == [hi |-> hi, lo |-> lo]

u32_MAX == u32(Limb - 1, Limb - 1)

\* The mathematical sum a + b, with the carry out of 32 bits.
Sum(a, b) ==
    LET lo == a.lo + b.lo
        hi == a.hi + b.hi + (lo \div Limb)
    IN  [carry |-> hi \div Limb, hi |-> hi % Limb, lo |-> lo % Limb]

\* a + b on u32 in a build without overflow checks: modulo 2^32
wrapping_add(a, b) == u32(Sum(a, b).hi, Sum(a, b).lo)

\* CodeLocation::new
CodeLocation_new(file, line) == [file |-> file, line |-> line]

\* self.line + lines panics when the build checks overflow (debug profile)
\* and wraps when it does not (release profile).
down_by(self, lines, overflow_checks) ==
    IF Sum(self.line, lines).carry # 0 /\ overflow_checks
    THEN Panic("attempt to add with overflow")
    ELSE [file |-> self.file, line |-> wrapping_add(self.line, lines)]

LocFiles == {"foo.rs", "src/result.rs"}

LocLines == {u32(0, 1), u32(0, 919), u32(Limb - 1, Limb - 2), u32_MAX}

LinesDown == {u32(0, 0), u32(0, 1), u32(0, 2), u32(0, Limb - 1), u32(1, 0), u32_MAX}

InitLoc ==
    /\ prog = << >>
    /\ fp = 0
    /\ ip = 0
    /\ pc = "loc"
    /\ ret = NoValue
    /\ trail = << >>
    /\ prev = NoValue
    /\ last = NoOp
    /\ nops = 0
    /\ held = NoThreads
    /\ chan = << >>
    /\ tpc = NoThreads
    /\ log = << >>

\* let loc = CodeLocation::new(file, line)
LocNew ==
    \E file \in LocFiles, line \in LocLines :
        /\ pc = "loc"
        /\ nops < MaxOps
        /\ ret' = CodeLocation_new(file, line)
        /\ prev' = ret
        /\ last' = [op |-> "new", caller |-> LibLocation, ety |-> "str"]
        /\ nops' = nops + 1
        /\ UNCHANGED <<prog, fp, ip, pc, trail, threads>>

\* let loc = loc.down_by(lines), in a build with or without overflow checks
LocDownBy ==
    \E lines \in LinesDown, overflow_checks \in BOOLEAN :
        /\ pc = "loc"
        /\ nops < MaxOps
        /\ ret # NoValue
        /\ ret' = down_by(ret, lines, overflow_checks)
        /\ prev' = ret
        /\ last' = [op |-> "down_by", caller |-> LibLocation, ety |-> "str", lines |-> lines]
        /\ nops' = nops + 1
        /\ pc' = IF ret' = Panic("attempt to add with overflow") THEN "panicked" ELSE "loc"
        /\ UNCHANGED <<prog, fp, ip, trail, threads>>

NextLoc ==
    \/ LocNew
    \/ LocDownBy

SpecLoc == InitLoc /\ [][NextLoc]_vars

----------------------------------------------------------------------------
(* == of results: the derived PartialEq of Result, TracedError,            *)
(* CodeLocationStack and CodeLocation compares field by field (SpecEq).    *)

\* derive(PartialEq) of CodeLocation
CodeLocation_eq(a, b) == a.file = b.file /\ a.line = b.line

\* derive(PartialEq) of CodeLocationStack: == of Vec<CodeLocation>
CodeLocationStack_eq(a, b) ==
    /\ Len(a) = Len(b)
    /\ \A i \in 1..Len(a) : CodeLocation_eq(a[i], b[i])

\* == of the payloads (the variant and what it holds)
Payload_eq(a, b) == a.variant = b.variant /\ a.data = b.data

\* == of the success values
Value_eq(a, b) == a.kind = b.kind /\ a.n = b.n

TracedError_eq_payload_only(a, b) == Payload_eq(a.error, b.error)

\* derive(PartialEq) of TracedError
TracedError_eq(a, b) == Payload_eq(a.error, b.error) /\ CodeLocationStack_eq(a.stack, b.stack)

\* derive(PartialEq) of Result
Result_eq(a, b) ==
    IF a.tag = "Ok" /\ b.tag = "Ok" THEN Value_eq(a.ok, b.ok)
    ELSE IF a.tag = "Err" /\ b.tag = "Err" THEN TracedError_eq(a.err, b.err)
    ELSE FALSE

\* Both are results of one type Result<T, E>.
SameType(a, b) ==
    /\ a.tag \in {"Ok", "Err"} /\ b.tag \in {"Ok", "Err"}
    /\ (a.tag = "Ok" /\ b.tag = "Ok")
          => \/ a.ok.kind = b.ok.kind
             \/ {a.ok.kind, b.ok.kind} = {"Some", "None"}
    /\ (a.tag = "Err" /\ b.tag = "Err") => a.err.error.ty = b.err.error.ty

\* before == held, where `before` is the result the consumer held before its
\* last operation (it kept a copy, as Fixture keeps the expected stack)
OpEq ==
    /\ pc = "ops"
    /\ SameType(prev, ret)
    /\ ret' = [tag |-> "bool", b |-> Result_eq(prev, ret)]
    /\ last' = [op |-> "eq", caller |-> LibLocation, ety |-> "str",
                lhs |-> prev, rhs |-> ret, after |-> last.op]
    /\ pc' = "compared"
    /\ UNCHANGED <<prog, fp, ip, trail, prev, nops, threads>>

NextEq ==
    \/ NextOps
    \/ OpEq

SpecEq == InitOps /\ [][NextEq]_vars

----------------------------------------------------------------------------
(* Definitions used to state the properties *)

Loc(site) == [file |-> site.file, line |-> site.line]

Depth == Len(prog)

Leaf == prog[Depth]

\* The innermost function fails, and where its failure is created.
LeafFails == Leaf.body \in {"gives_error", "err_traced_new", "maybe_int"} \/ (Leaf.body = "maybe_io_error" /\ Leaf.fail)

LeafSucceeds == Leaf.body = "gives_ok" \/ (Leaf.body = "maybe_io_error" /\ ~Leaf.fail)

OriginSite == IF Leaf.body = "maybe_int" /\ ~Leaf.fail THEN SiteBelow(Leaf.site, 1) ELSE Leaf.site

Forwards(f) == f.body \in {"foo", "bottom"}

\* The trace of the failure function i returns: the origin, then the `?` of
\* every forwarding function from the innermost outwards.
RECURSIVE TraceFrom(_)
TraceFrom(i) ==
    IF i = Depth THEN <<Loc(OriginSite)>>
    ELSE IF Forwards(prog[i]) THEN TraceFrom(i + 1) \o <<Loc(prog[i].site)>>
    ELSE TraceFrom(i + 1)

\* The value function i returns when the innermost function succeeds.
RECURSIVE ValueFrom(_)
ValueFrom(i) ==
    IF i = Depth THEN (IF Leaf.body = "gives_ok" THEN U32(2) ELSE Unit)
    ELSE IF prog[i].body = "bottom" THEN Unit
    ELSE ValueFrom(i + 1)

\* Function fp + 1 has just returned `ret` (to function fp, or to the top level).
JustReturned == pc \in {"returned", "done"}

IsPrefix(s, t) == Len(s) <= Len(t) /\ SubSeq(t, 1, Len(s)) = s

HasCarrier(x) ==
    \/ x.tag \in {"Err", "TracedError"}
    \/ x.tag = "Some" /\ x.some.tag \in {"Err", "TracedError"}

CarrierOf(x) == IF x.tag = "Some" THEN x.some.err ELSE x.err

CreationOps == {"new_err", "traced_new", "std_try", "Ok", "err_with", "show_default"}

\* Operations that print or format the failure they are given.
ShowOps == {"report", "show"}

----------------------------------------------------------------------------
(* C1..C10 *)

\* C1: in a chain of N nested calls whose innermost call creates the failure
\* and whose N-1 enclosing calls all forward it with `?`, the failure received
\* at the top has exactly N locations, the origin first and the outermost
\* forward last.
C1_ChainTraceHasNLocations ==
    (pc = "done" /\ LeafFails /\ \A i \in 1..(Depth - 1) : Forwards(prog[i]))
        => /\ ret.tag = "Err"
           /\ Len(ret.err.stack) = Depth
           /\ ret.err.stack[1] = Loc(OriginSite)
           /\ \A k \in 2..Depth : ret.err.stack[k] = Loc(prog[Depth + 1 - k].site)

C1_Witness ==
    /\ pc = "done" /\ Depth = 3 /\ LeafFails
    /\ \A i \in 1..2 : Forwards(prog[i])
    /\ prog[1].site # prog[2].site /\ prog[2].site # prog[3].site
    /\ Len(ret.err.stack) = 3

\* C2: `?` applied to an Err of a propagate Result returns an Err whose trace
\* is the trace before the hop followed by the location of that `?`.
C2_NativeHopAppendsOne ==
    [][(pc = "returned" /\ Stmt \in {"call_try", "ok_call_try"} /\ ret.tag = "Err")
        => /\ ret'.tag = "Err"
           /\ ret'.err.stack = ret.err.stack \o <<Loc(StmtSite)>>]_vars

C2_Witness ==
    /\ JustReturned /\ fp < Depth /\ Forwards(prog[fp + 1])
    /\ ret.tag = "Err" /\ Len(ret.err.stack) >= 2

\* C3: when a function returns the inner result directly, the trace its
\* caller receives is the trace the inner function returned.
C3_DirectReturnKeepsTrace ==
    (JustReturned /\ fp < Depth /\ prog[fp + 1].body = "bar" /\ LeafFails)
        => /\ ret.tag = "Err"
           /\ ret.err.stack = TraceFrom(fp + 2)

C3_Witness ==
    /\ pc = "done" /\ Depth = 3 /\ LeafFails
    /\ prog[1].body = "foo" /\ prog[2].body = "bar"
    /\ Len(ret.err.stack) = 2

\* C4: `?` applied to a std Err yields an Err whose trace holds exactly one
\* location, that of the `?`, whatever failure was held before.
C4_ForeignEntryStartsFreshTrace ==
    (last.op = "std_try" /\ ret.tag = "Err")
        => /\ ret.err.stack = <<Loc(last.caller)>>
           /\ last.caller \in Sites

C4_Witness ==
    /\ last.op = "std_try" /\ ret.tag = "Err"
    /\ prev.tag = "Err" /\ Len(prev.err.stack) >= 2
    /\ prev.err.stack[1] # Loc(last.caller)

\* C5: Result::new_err(d) is an Err with payload E::from(d) and a trace of
\* exactly one location, the call site of new_err.
C5_NewErrRecordsCallSite ==
    (JustReturned /\ fp = Depth - 1 /\ Leaf.body = "gives_error")
        => ret = Err([error |-> From(Leaf.payload, Leaf.ety), stack |-> <<Loc(Leaf.site)>>])

C5_Witness ==
    /\ JustReturned /\ fp = Depth - 1 /\ Leaf.body = "gives_error"
    /\ Leaf.payload.ty # Leaf.ety
    /\ ret.tag = "Err" /\ ret.err.error.ty = Leaf.ety

\* C6: convert_inner changes only the payload, to From::from(payload); the
\* trace is the same before and after.
C6_ConvertInnerKeepsTrace ==
    last.op = "convert_inner"
        => /\ ret.tag = prev.tag
           /\ ret.err.stack = prev.err.stack
           /\ ret.err.error = From(prev.err.error, last.ety)

C6_Witness ==
    /\ last.op = "convert_inner"
    /\ Len(prev.err.stack) >= 2
    /\ ret.err.error # prev.err.error

\* C7: every operation applied to a failure returns it with the trace it had
\* before as a prefix of the trace it has after (hence so does every sequence
\* of operations).
C7_TraceAppendOnly ==
    (HasCarrier(prev) /\ last.op \notin CreationOps)
        => /\ HasCarrier(ret)
           /\ IsPrefix(CarrierOf(prev).stack, CarrierOf(ret).stack)

C7_Witness ==
    /\ HasCarrier(prev) /\ last.op = "push_caller"
    /\ Len(CarrierOf(prev).stack) >= 2
    /\ Len(CarrierOf(ret).stack) = Len(CarrierOf(prev).stack) + 1

\* C8: every failure carrier has a non-empty trace.
C8_TraceNeverEmpty ==
    HasCarrier(ret) => Len(CarrierOf(ret).stack) >= 1

C8_Witness ==
    /\ HasCarrier(ret) /\ nops = MaxOps
    /\ last.op \in {"map_err", "transpose", "err_stack", "convert_inner"}

\* C9: `?` applied to Ok(v) goes on with v and records nothing: a chain whose
\* innermost call succeeds ends in Ok, with the value handed up unchanged by
\* every Ok(callee()?).
C9_QuestionMarkOnOkContinues ==
    (JustReturned /\ fp < Depth /\ LeafSucceeds) => ret = Ok(ValueFrom(fp + 1))

C9_Witness ==
    /\ pc = "done" /\ Depth = 3 /\ Leaf.body = "gives_ok"
    /\ prog[1].body = "foo" /\ prog[2].body = "foo"
    /\ ret = Ok(U32(2))

\* A logged statement that applied `?` to a failure.
IsBreak(t) == t.stmt \in {"std_try", "call_try", "ok_call_try"} /\ t.saw \in {"Err", "StdErr"}

\* C10: `?` applied to an Err exits the enclosing function at once: no later
\* statement of that function runs (a second `?` after it records nothing),
\* and its caller receives an Err.
C10_QuestionMarkOnErrExits ==
    \A k \in 1..Len(trail) :
        IsBreak(trail[k])
            => /\ \A j \in (k + 1)..Len(trail) : trail[j].fp < trail[k].fp
               /\ k = Len(trail) => (JustReturned /\ fp = trail[k].fp - 1 /\ ret.tag = "Err")
               /\ fp < trail[k].fp

C10_Witness ==
    /\ pc = "done" /\ Depth = 2
    /\ prog[1].body = "bottom" /\ Leaf.body = "maybe_int" /\ Leaf.fail
    /\ Len(trail) = 2
    /\ ret.tag = "Err" /\ Len(ret.err.stack) = 2

----------------------------------------------------------------------------
(* C11..C20 *)

\* The function that was handed to the last map_err.
LastMapFn == IF last.ety = "String" THEN "stringify" ELSE "wrap"

\* C11: map_err(op) records no location: on Err it returns an Err whose
\* payload is op(payload) and whose trace is the input trace; on Ok(t) it
\* returns Ok(t), whatever op is.
C11_MapErrKeepsTrace ==
    last.op = "map_err"
        => IF prev.tag = "Err"
           THEN /\ ret.tag = "Err"
                /\ ret.err.error = Apply(LastMapFn, prev.err.error)
                /\ ret.err.stack = prev.err.stack
           ELSE ret = prev

C11_Witness ==
    /\ last.op = "map_err" /\ prev.tag = "Err"
    /\ Len(prev.err.stack) >= 2
    /\ ret.err.error # prev.err.error
    /\ ret.err.stack = prev.err.stack

\* The text the last unwrap-style operation was given, or its default text.
LastMsg ==
    CASE last.op = "unwrap"     -> UnwrapMsg
      [] last.op = "unwrap_err" -> UnwrapErrMsg
      [] OTHER                  -> last.msg

Contains(text, piece) == \E i \in 1..Len(text) : text[i] = piece

\* C12: unwrap and expect on an Err, and unwrap_err and expect_err on an Ok,
\* panic with the given or default text, ": ", and the {:?} description of
\* the mis-accessed value (which holds the payload's text); they return no
\* value, and nothing runs after the panic.
C12_WrongVariantPanics ==
    /\ (last.op \in {"unwrap", "expect"} /\ prev.tag = "Err")
          => /\ pc = "panicked"
             /\ ret = Panic(<<LastMsg, ": ">> \o DebugTracedError(prev.err))
             /\ Contains(ret.msg, prev.err.error.data)
    /\ (last.op \in {"unwrap_err", "expect_err"} /\ prev.tag = "Ok")
          => /\ pc = "panicked"
             /\ ret = Panic(<<LastMsg, ": ">> \o DebugValue(prev.ok))
    /\ pc = "panicked" => (ret.tag = "Panic" /\ ~ENABLED NextUse)

C12_Witness ==
    /\ last.op = "expect" /\ prev.tag = "Err" /\ Len(prev.err.stack) >= 2
    /\ pc = "panicked"
    /\ ret.msg[1] = "Testing expect"

\* C13: unwrap and expect on Ok(v) return v without a panic; unwrap_err (and
\* expect_err) on an Err return its payload.
C13_UnwrapReturnsContent ==
    /\ (last.op \in {"unwrap", "expect"} /\ prev.tag = "Ok")
          => (ret = Value(prev.ok) /\ pc = "ops")
    /\ (last.op \in {"unwrap_err", "expect_err"} /\ prev.tag = "Err")
          => (ret = PayloadV(prev.err.error) /\ pc = "ops")

C13_Witness ==
    /\ last.op = "unwrap" /\ prev = Ok(Unit)
    /\ ret = Value(Unit) /\ pc = "ops"

\* Traces a failure may carry.
SomeTraces ==
    {<<Loc(x)>> : x \in Sites} \cup {<<Loc(x), Loc(y)>> : x \in Sites, y \in Sites}

\* C14: to_std turns Ok(t) into std Ok(t) and an Err with payload e into std
\* Err(e), the payload and its type as they were; the result is the same
\* whatever the trace was.
C14_ToStdDropsTrace ==
    last.op = "to_std"
        => IF prev.tag = "Ok" THEN ret = StdOk(prev.ok)
           ELSE /\ ret = StdErr(prev.err.error)
                /\ ret.error.ty = prev.err.error.ty
                /\ \A s \in SomeTraces : to_std(Err(TracedError(prev.err.error, s))) = ret

C14_Witness ==
    /\ last.op = "to_std" /\ prev.tag = "Err"
    /\ Len(prev.err.stack) >= 2 /\ prev.err.error.ty = "MyError"
    /\ ret.tag = "StdErr"

\* The adapters that return a value without a trace.
DiscardOps ==
    {"to_std", "as_std_ref", "ok", "err", "unwrap_or", "unwrap_or_else",
     "unwrap_or_default", "unwrap_err", "expect_err"}

\* C15: an operation applied to a failure returns no trace only when it is
\* one of the adapters to_std, as_std_ref, ok, err, unwrap_or,
\* unwrap_or_else, unwrap_or_default, unwrap_err, expect_err (unwrap and
\* expect panic, report and Display print every location); every other
\* operation returns the failure with the trace it had as a prefix of the
\* trace it has.
C15_TraceDiscardedOnlyByAdapters ==
    (HasCarrier(prev) /\ last.op \notin CreationOps)
        => IF last.op \in DiscardOps THEN ~HasCarrier(ret) /\ ret.tag # "Panic"
           ELSE IF last.op \in {"unwrap", "expect"} THEN ret.tag = "Panic"
           ELSE IF last.op \in ShowOps
                THEN LET text == IF last.op = "report" THEN ret.out ELSE ret.display
                     IN  \A i \in 1..Len(prev.err.stack) : Contains(text, ToString(prev.err.stack[i].line))
           ELSE /\ HasCarrier(ret)
                /\ IsPrefix(CarrierOf(prev).stack, CarrierOf(ret).stack)

C15_Witness ==
    /\ HasCarrier(prev) /\ Len(CarrierOf(prev).stack) >= 2
    /\ last.op = "transpose"
    /\ CarrierOf(ret).stack = CarrierOf(prev).stack

\* The payload the innermost function's failure is created from.
OriginPayload ==
    IF Leaf.body = "maybe_int" /\ ~Leaf.fail THEN Payload("MyError", "Other", "-") ELSE Leaf.payload

\* The payload of the failure function i returns: the original payload
\* converted into the error type of every function that created or forwarded
\* it, from the innermost outwards.
RECURSIVE PayloadFrom(_)
PayloadFrom(i) ==
    IF i = Depth THEN From(OriginPayload, Leaf.ety)
    ELSE IF Forwards(prog[i]) THEN From(PayloadFrom(i + 1), prog[i].ety)
    ELSE PayloadFrom(i + 1)

\* C16: a failure forwarded with `?` at every boundary up to the top level
\* surfaces with the original payload, converted by From in forwarding order
\* where the error types differ and untouched where they do not, and with the
\* origin followed by every forwarding site in order.
C16_ForwardedFailureSurfacesWhole ==
    (pc = "done" /\ LeafFails /\ \A i \in 1..(Depth - 1) : Forwards(prog[i]))
        => /\ ret = Err(TracedError(PayloadFrom(1), TraceFrom(1)))
           /\ (\A i \in 1..Depth : prog[i].ety = OriginPayload.ty) => ret.err.error = OriginPayload
           /\ ret.err.error.data = OriginPayload.data

C16_Witness ==
    /\ pc = "done" /\ Depth = 3 /\ Leaf.body = "gives_error"
    /\ \A i \in 1..2 : Forwards(prog[i])
    /\ Leaf.payload.ty = "str" /\ Leaf.ety = "String" /\ prog[2].ety = "String" /\ prog[1].ety = "MyError"
    /\ ret = Err(TracedError(Payload("MyError", "Other", "oops"),
                             <<Loc(Leaf.site), Loc(prog[2].site), Loc(prog[1].site)>>))

\* The locations the operations logged for a failure recorded, in order.
SitesOf(entries) == [i \in 1..Len(entries) |-> Loc(entries[i].site)]

\* The payload after the operations logged for a failure: the payload given
\* at creation, converted by the creation and by every `?` into the error
\* type of its function.
RECURSIVE PayloadOf(_)
PayloadOf(entries) ==
    LET n == Len(entries)
        e == entries[n]
    IN  IF n = 1 THEN From(e.payload, e.ety)
        ELSE IF e.op = "try" THEN From(PayloadOf(SubSeq(entries, 1, n - 1)), e.ety)
        ELSE PayloadOf(SubSeq(entries, 1, n - 1))

\* The carrier the operations logged for a failure build.
CarrierBuilt(entries) == TracedError(PayloadOf(entries), SitesOf(entries))

C18_FailureCrossesThreads ==
    /\ (tpc.producer = "sent" /\ tpc.consumer = "start" /\ log.sent # << >>)
          => chan = <<Err(CarrierBuilt(log.sent))>>
    /\ (tpc.consumer = "received" /\ log.sent # << >>)
          => held.got = Err(CarrierBuilt(log.sent))
    /\ (tpc.consumer = "done" /\ log.sent # << >>)
          => /\ held.got = Err(CarrierBuilt(log.sent))
             /\ log.sent[Len(log.sent)].op = "try"
             /\ \A i \in 1..(Len(log.sent) - 1) : log.sent[i].op # "try"

C18_Witness ==
    /\ tpc.consumer = "done" /\ Len(log.sent) = 3
    /\ log.sent[1].op = "new" /\ log.sent[1].payload.ty = "io" /\ log.sent[3].ety = "MyError"
    /\ held.got.tag = "Err" /\ Len(held.got.err.stack) = 3
    /\ held.got.err.stack[3] # held.got.err.stack[2]
    /\ held.own.tag = "Err" /\ Len(held.own.err.stack) = 2

\* The failure each owner holds is the one its own operations built.
OwnTraceOnly ==
    /\ held.own.tag = "Err" => held.own.err = CarrierBuilt(log.own)
    /\ held.prod.tag \in {"Err", "TracedError"} => held.prod.err = CarrierBuilt(log.sent)
    /\ held.got.tag = "Err" => held.got.err = CarrierBuilt(log.sent)

\* C19: there is no shared state: a step that changes the consumer's own
\* failure leaves the failure of the producer (held, in the channel or
\* received) as it was, and the other way round; and every failure holds
\* the payload and the locations of its own operations only.
C19_NoSharedState ==
    [][/\ (held'.own = held.own \/ (held'.prod = held.prod /\ held'.got = held.got /\ chan' = chan))
       /\ OwnTraceOnly']_vars

C19_Witness ==
    /\ held.own.tag = "Err" /\ Len(held.own.err.stack) = 2
    /\ held.prod.tag = "TracedError" /\ Len(held.prod.err.stack) = 3
    /\ held.own.err.stack[1] # held.prod.err.stack[1]

\* C20: the public construction interface builds a failure from a payload
\* and an explicitly given trace store, and the failure holds exactly that
\* payload and that trace store.
C20_GivenStoreIsCarried ==
    last.op = "err_with" => ret = Err(TracedError(last.payload, last.given))

----------------------------------------------------------------------------
(* C21..C30 *)

\* The pieces the report prints for location i (one-based) of a stack.
TraceLine(stack, i) ==
    <<"\n   ", ToString(i - 1), ": ", stack[i].file, ":", ToString(stack[i].line)>>

C22_DisplayOfLocationsAndStacks ==
    last.op \in {"show", "show_default"}
        => /\ Len(ret.strings) = Len(last.stack)
           /\ \A i \in 1..Len(last.stack) :
                 /\ ret.strings[i] = <<last.stack[i].file, ":", ToString(last.stack[i].line)>>
                 /\ SubSeq(ret.display, 6 * (i - 1) + 1, 6 * i) = TraceLine(last.stack, i)
           /\ Len(ret.display) = 6 * Len(last.stack)
           /\ last.stack = << >> => ret.display = << >>

C22_Witness ==
    /\ last.op = "show" /\ Len(last.stack) = 3
    /\ last.stack[1] # last.stack[3]
    /\ ret.display[8] = "1"

\* C23: the protocol does the same with every trace store: it calls the
\* store's trace once for each construction and once for each `?` forward,
\* with the call site, so after any sequence of constructions and forwards
\* the CustomStack holds the <file>:<line> texts of the locations the
\* default store holds, in the same order, and the two results are the same
\* otherwise.
C23_CustomStoreHoldsSameEntries ==
    LET d == held["CodeLocationStack"]
        c == held["CustomStack"]
    IN  pc = "stores"
            => /\ c.tag = d.tag
               /\ d.tag = "Ok" => c = d
               /\ d.tag = "Err"
                     => /\ c.err.error = d.err.error
                        /\ Len(d.err.stack) = Len(log) /\ Len(c.err.stack) = Len(log)
                        /\ \A i \in 1..Len(log) :
                              /\ d.err.stack[i] = Loc(log[i])
                              /\ c.err.stack[i] = <<log[i].file, ":", ToString(log[i].line)>>
                        /\ c.err.stack = to_strings(d.err.stack)

C23_Witness ==
    /\ pc = "stores" /\ held["CustomStack"].tag = "Err"
    /\ Len(held["CustomStack"].err.stack) = 3
    /\ held["CustomStack"].err.stack[3] = <<"src/result.rs", ":", "948">>
    /\ held["CodeLocationStack"].err.stack[3] = CodeLocation("src/result.rs", 948)

\* C24: ok(), err() and err_stack() hand out what the populated variant
\* holds: ok() is Some(t) on Ok(t) and None on Err; err() is Some(payload) on
\* Err and None on Ok; err_stack() is None on Ok and on Err is Some of the
\* carrier, its payload and its whole trace unchanged.
C24_OptionAdaptersReturnContents ==
    (pc = "ops" /\ last.op \in {"ok", "err", "err_stack"} /\ prev.tag \in {"Ok", "Err"})
        => IF last.op = "ok"
               THEN IF prev.tag = "Ok" THEN ret.tag = "Some" /\ ret.some.tag = "Value" /\ ret.some.v = prev.ok
                    ELSE ret.tag = "None"
           ELSE IF last.op = "err"
               THEN IF prev.tag = "Err"
                        THEN ret.tag = "Some" /\ ret.some.tag = "Payload" /\ ret.some.error = prev.err.error
                    ELSE ret.tag = "None"
           ELSE IF prev.tag = "Ok" THEN ret.tag = "None"
                ELSE /\ ret.tag = "Some" /\ ret.some.tag = "TracedError"
                     /\ ret.some.err.error = prev.err.error
                     /\ ret.some.err.stack = prev.err.stack

C24_Witness ==
    /\ pc = "ops" /\ last.op = "err_stack" /\ prev.tag = "Err"
    /\ Len(prev.err.stack) = 2 /\ ret.tag = "Some" /\ Len(ret.some.err.stack) = 2

\* C25: a failure that enters with `?` on a std Err (maybe_io_error) and is
\* then forwarded with `?` into a function whose error type differs surfaces
\* with the trace [site of the foreign `?`, site of the forwarding `?`] and
\* with the original error converted by From, and this is so both for the
\* form `x?; Ok(())` (bottom) and for the form `Ok(x?)` (foo).
C25_ForeignEntryThenConvertingForward ==
    (/\ pc = "done" /\ Depth = 2
     /\ Leaf.body = "maybe_io_error" /\ Leaf.fail
     /\ prog[1].body \in {"bottom", "foo"}
     /\ prog[1].ety # Leaf.ety)
        => /\ ret.tag = "Err"
           /\ ret.err.stack = <<Loc(Leaf.site), Loc(prog[1].site)>>
           /\ ret.err.error = From(From(Leaf.payload, Leaf.ety), prog[1].ety)
           /\ ret.err.error.ty = prog[1].ety
           /\ ret.err.error.data = Leaf.payload.data

C25_Witness ==
    /\ pc = "done" /\ Depth = 2
    /\ Leaf.body = "maybe_io_error" /\ Leaf.fail /\ Leaf.payload.ty = "io" /\ Leaf.ety = "io"
    /\ prog[1].body = "bottom" /\ prog[1].ety = "MyError"
    /\ ret = Err(TracedError(Payload("MyError", "Io", "NotFound"), <<Loc(Leaf.site), Loc(prog[1].site)>>))

\* C26: unwrap_or(d) gives t on Ok(t) and d on Err; unwrap_or_else(op) gives
\* t on Ok(t), whatever op would compute, and op(payload) on Err;
\* unwrap_or_default() gives t on Ok(t) and the Default of the success type
\* on Err; none of the three aborts the process.
C26_FallbackAdaptersNeverAbort ==
    (last.op \in {"unwrap_or", "unwrap_or_else", "unwrap_or_default"} /\ prev.tag \in {"Ok", "Err"})
        => /\ pc = "ops"
           /\ ret.tag = "Value"
           /\ prev.tag = "Ok" => ret.v = prev.ok
           /\ prev.tag = "Err"
                 => ret.v = CASE last.op = "unwrap_or" -> last.default
                              [] last.op = "unwrap_or_else" -> U32(TextLen(prev.err.error.data))
                              [] last.op = "unwrap_or_default" ->
                                    (IF last.T = "unit" THEN Unit ELSE IF last.T = "u32" THEN U32(0) ELSE NoneV)

C26_Witness ==
    /\ pc = "ops" /\ last.op = "unwrap_or" /\ prev.tag = "Ok" /\ prev.ok = U32(5)
    /\ last.default = U32(2) /\ ret = Value(U32(5))

\* C27: transpose swaps the nesting of a result holding an optional value:
\* Ok(None) becomes None, Ok(Some(x)) becomes Some(Ok(x)), and Err(e) becomes
\* Some(Err(e)) with the same payload and the same trace (no location is
\* recorded).
C27_TransposeSwapsNesting ==
    (pc = "ops" /\ last.op = "transpose")
        => IF prev.tag = "Err"
               THEN /\ ret.tag = "Some" /\ ret.some.tag = "Err"
                    /\ ret.some.err.error = prev.err.error
                    /\ ret.some.err.stack = prev.err.stack
           ELSE IF prev.ok.kind = "None" THEN ret.tag = "None"
           ELSE /\ prev.ok.kind = "Some"
                /\ ret.tag = "Some" /\ ret.some.tag = "Ok"
                /\ ret.some.ok.kind = "u32" /\ ret.some.ok.n = prev.ok.n

C27_Witness ==
    /\ pc = "ops" /\ last.op = "transpose" /\ prev.tag = "Err"
    /\ Len(prev.err.stack) = 2 /\ ret.tag = "Some" /\ ret.some = prev

\* C28: for every location and every u32 `lines`, down_by(lines) returns
\* the location `lines` lines below: the same file, and a line number equal
\* to line + lines.
C28_DownByAddsLines ==
    last.op = "down_by"
        => /\ pc = "loc"
           /\ ret.file = prev.file
           /\ [carry |-> 0, hi |-> ret.line.hi, lo |-> ret.line.lo] = Sum(prev.line, last.lines)

\* How many entries of `stack` are the location l.
Occurrences(stack, l) == Cardinality({i \in 1..Len(stack) : stack[i] = l})

\* C29: trace entries are never deduplicated or filtered: when the same `?`
\* site forwards a failure more than once (a recursive function), every
\* forward appends its own entry, so a location occurs in the trace as many
\* times as it recorded the failure, and the length of the trace is 1 plus
\* the number of forwards.
C29_EveryForwardKeepsItsEntry ==
    (pc = "done" /\ LeafFails /\ \A i \in 1..(Depth - 1) : Forwards(prog[i]))
        => /\ ret.tag = "Err"
           /\ Len(ret.err.stack) = 1 + (Depth - 1)
           /\ \A s \in Sites \cup {OriginSite} :
                 Occurrences(ret.err.stack, Loc(s))
                     = Cardinality({i \in 1..(Depth - 1) : prog[i].site = s})
                         + (IF OriginSite = s THEN 1 ELSE 0)

C29_Witness ==
    /\ pc = "done" /\ Depth = 3 /\ LeafFails
    /\ prog[1].body = "foo" /\ prog[2].body = "foo" /\ prog[1].site = prog[2].site
    /\ Leaf.site # prog[1].site
    /\ Len(ret.err.stack) = 3 /\ ret.err.stack[2] = ret.err.stack[3]
    /\ Occurrences(ret.err.stack, Loc(prog[1].site)) = 2

\* C30: equality of results includes the trace: two results are equal
\* exactly when they are the same variant and, for Ok, the values are equal
\* or, for Err, the payloads are equal and the traces hold the same
\* locations in the same order; so a failure and the same failure after one
\* more `?` forward are not equal, and two Ok results with equal values are
\* equal whatever was done before.
C30_EqualityIncludesTrace ==
    pc = "compared"
        => LET a == last.lhs
               b == last.rhs
           IN  /\ ret.b <=> /\ a.tag = b.tag
                            /\ a.tag = "Ok" => a.ok = b.ok
                            /\ a.tag = "Err" => (a.err.error = b.err.error /\ a.err.stack = b.err.stack)
               /\ (last.after = "try" /\ a.tag = "Err" /\ b.tag = "Err") => ~ret.b
               /\ (a.tag = "Ok" /\ b.tag = "Ok" /\ a.ok = b.ok) => ret.b

C30_Witness ==
    /\ pc = "compared" /\ last.after = "try" /\ ret.b = FALSE
    /\ last.lhs.tag = "Err" /\ last.rhs.tag = "Err"
    /\ last.lhs.err.error = last.rhs.err.error
    /\ last.rhs.err.stack = Append(last.lhs.err.stack, last.rhs.err.stack[Len(last.rhs.err.stack)])

====
